---- MODULE Spec2Model ----
(***************************************************************************)
(* makeGrafastSchema (grafast/grafast/src/makeGrafastSchema.ts): the loop  *)
(* that merges a `plans` configuration map into a GraphQL schema built     *)
(* from SDL.  The schema's structure (types, fields, args, enum values) is *)
(* fixed; the loop mutates hooks and `extensions.grafast` slots, warns on  *)
(* references that are absent from the schema and throws on invalid        *)
(* configuration.                                                          *)
(***************************************************************************)
EXTENDS Integers, Sequences, FiniteSets, TLC

VARIABLES plans, schema, warnings, status, error, nextId, i, j

vars == <<plans, schema, warnings, status, error, nextId, i, j>>

(* Bound of the model: the number of leaf entries of the `plans` map (a    *)
(* type entry counts for the number of keys of its spec, at least one).    *)
MaxEntries == 2

-----------------------------------------------------------------------------
(* JavaScript values.  t is the tag, v the payload of a primitive or the   *)
(* identity of a function, e the own enumerable properties of an object in *)
(* insertion order, each [k |-> key, x |-> value].                         *)

Fn(name) == [t |-> "function", v |-> name, e |-> <<>>]
Str(s) == [t |-> "string", v |-> s, e |-> <<>>]
Num(s) == [t |-> "number", v |-> s, e |-> <<>>]
Bool(s) == [t |-> "boolean", v |-> s, e |-> <<>>]
Null == [t |-> "null", v |-> "", e |-> <<>>]
Undef == [t |-> "undefined", v |-> "", e |-> <<>>]
Obj(entries) == [t |-> "object", v |-> "", e |-> entries]
P(key, val) == [k |-> key, x |-> val]

(* typeof val *)
TypeOf(val) == IF val.t = "null" THEN "object" ELSE val.t

(* Variant: only `typeof val !== "object"`, so null passes. *)
NotAnObjectTypeofOnly(val) == TypeOf(val) # "object"

(* typeof val !== "object" || !val *)
NotAnObject(val) == TypeOf(val) # "object" \/ val.t = "null"

(* ToBoolean(val), as used by `if (x)` *)
Truthy(val) ==
  CASE val.t \in {"null", "undefined"} -> FALSE
    [] val.t = "string" -> val.v # ""
    [] val.t = "number" -> val.v \notin {"0", "NaN"}
    [] val.t = "boolean" -> val.v = "true"
    [] OTHER -> TRUE

Keys(entries) == {entries[n].k : n \in 1..Len(entries)}

(* key in val, for a plain object val *)
Has(val, key) == val.t = "object" /\ key \in Keys(val.e)

(* val[key]: undefined when the property is missing or val is a primitive  *)
(* (reading a property of null or undefined throws, see FieldSpecResult).  *)
Get(val, key) ==
  IF Has(val, key)
  THEN LET n == CHOOSE n \in 1..Len(val.e) : val.e[n].k = key IN val.e[n].x
  ELSE Undef

(* The own enumerable properties Object.assign(target, val) copies when    *)
(* val is an object, null, undefined, a number or a boolean.               *)
OwnProps(val) == IF val.t = "object" THEN val.e ELSE <<>>

(* An `extensions.grafast` slot: id 0 is "never written"; a written slot   *)
(* holds the identity of the object allocated for it and its properties.   *)
NoSlot == [id |-> 0, props |-> <<>>]
NewSlot(id, props) == [id |-> id, props |-> props]

-----------------------------------------------------------------------------
(* The schema built by buildASTSchema(parse(typeDefs)): its structure.     *)

ObjectTypes == {"Query"}
InputObjectTypes == {"In"}
PolyTypes == {"Node"}
ScalarTypes == {"Date"}
EnumTypes == {"Color"}
SchemaTypes == ObjectTypes \cup InputObjectTypes \cup PolyTypes \cup ScalarTypes \cup EnumTypes

(* schema.getType(typeName) and the is*Type predicates.  Every named type   *)
(* of a schema is of one of these kinds, so the final `else` of the loop   *)
(* body (console.error "Unhandled type") is never taken.                   *)
KindOf(T) ==
  CASE T \in ObjectTypes -> "Object"
    [] T \in InputObjectTypes -> "InputObject"
    [] T \in PolyTypes -> "InterfaceOrUnion"
    [] T \in ScalarTypes -> "Scalar"
    [] T \in EnumTypes -> "Enum"
    [] OTHER -> "None"

(* type.getFields() of an object type.  buildASTSchema does not validate   *)
(* names, so a type can declare fields whose names begin with "__".        *)
FieldsOf(T) == IF T = "Query" THEN {"hello", "goodbye", "__foo", "__assertStep"} ELSE {}

(* field.args *)
ArgsOf(T, f) == IF T = "Query" /\ f = "hello" THEN {"name"} ELSE {}

(* type.getFields() of an input object type *)
InputFieldsOf(T) == IF T = "In" THEN {"a", "b"} ELSE {}

(* type.getValues() of an enum type *)
ValuesOf(T) == IF T = "Color" THEN {"RED", "GREEN"} ELSE {}

(* fieldName.startsWith("__"), over the keys the configurations use *)
StartsWithDunder(key) == key \in {"__assertStep", "__foo", "__bar", "__resolveType"}

(* The mutable part of the schema right after buildASTSchema. *)
InitSchema ==
  [ typeExt |-> [T \in ObjectTypes \cup ScalarTypes |-> NoSlot],
    field |-> [T \in ObjectTypes |-> [f \in FieldsOf(T) |->
                 [resolve |-> Undef, subscribe |-> Undef, ext |-> NoSlot,
                  args |-> [a \in ArgsOf(T, f) |-> NoSlot]]]],
    inputField |-> [T \in InputObjectTypes |-> [f \in InputFieldsOf(T) |-> NoSlot]],
    resolveType |-> [T \in PolyTypes |-> Undef],
    scalar |-> [T \in ScalarTypes |->
                 [serialize |-> Fn("defaultSerialize"), parseValue |-> Fn("defaultParseValue"),
                  parseLiteral |-> Fn("defaultParseLiteral")]],
    enumValue |-> [T \in EnumTypes |-> [val \in ValuesOf(T) |->
                 [value |-> Str(val), ext |-> NoSlot]]] ]

-----------------------------------------------------------------------------
(* The effects of the loop body, as functions of the mutable state         *)
(* m = [schema, warnings, status, error, nextId].  nextId is the identity  *)
(* the next allocated object ({...} or Object.create(null)) gets.          *)

Warn(m, kind, at) == [m EXCEPT !.warnings = Append(@, [kind |-> kind, at |-> at])]
Throw(m, kind, at) == [m EXCEPT !.status = "thrown", !.error = [kind |-> kind, at |-> at]]
NoError == [kind |-> "", at |-> <<>>]

(* console.warn: type not present in the schema; continue *)
TypeNotFoundResult(m, T) == Warn(m, "type", <<T>>)

(* The five `throw new Error("Invalid ... config for '${typeName}'")` *)
InvalidConfigError(T) ==
  CASE KindOf(T) = "Object" -> "Invalid object config"
    [] KindOf(T) = "InputObject" -> "Invalid input object config"
    [] KindOf(T) = "InterfaceOrUnion" -> "Invalid interface/union config"
    [] KindOf(T) = "Scalar" -> "Invalid scalar config"
    [] OTHER -> "Invalid enum config"

InvalidConfigResult(m, T) == Throw(m, InvalidConfigError(T), <<T>>)

(* type.extensions.grafast = { assertStep: fieldSpec } *)
AssertStepResult(m, T, fieldSpec) ==
  [m EXCEPT !.schema.typeExt[T] = NewSlot(m.nextId, <<P("assertStep", fieldSpec)>>),
            !.nextId = @ + 1]

(* Variant: the unsupported name is only warned about and the loop continues. *)
UnsupportedFieldNameWarns(m, fieldName) == Warn(m, "unsupported field name", <<fieldName>>)

(* throw new Error(`Unsupported field name '${fieldName}'; ...`) *)
UnsupportedFieldNameResult(m, fieldName) == Throw(m, "Unsupported field name", <<fieldName>>)

(* Variant: a field that is not present is thrown about. *)
FieldNotFoundThrows(m, T, f) == Throw(m, "field was not present in the type", <<T, f>>)

(* console.warn: field not present in the object type; continue *)
FieldNotFoundResult(m, T, f) == Warn(m, "object field", <<T, f>>)

(* Variant: the bare function is also installed as the native resolver. *)
FieldPlanAlsoResolve(m, T, f, fieldSpec) ==
  [m EXCEPT !.schema.field[T][f].ext = NewSlot(m.nextId, <<P("plan", fieldSpec)>>),
            !.schema.field[T][f].resolve = fieldSpec,
            !.nextId = @ + 1]

(* Variant: `type.extensions` written where `field.extensions` is meant. *)
FieldPlanOnType(m, T, f, fieldSpec) ==
  [m EXCEPT !.schema.typeExt[T] = NewSlot(m.nextId, <<P("plan", fieldSpec)>>),
            !.nextId = @ + 1]

(* field.extensions.grafast = { plan: fieldSpec } *)
FieldPlanResult(m, T, f, fieldSpec) ==
  [m EXCEPT !.schema.field[T][f].ext = NewSlot(m.nextId, <<P("plan", fieldSpec)>>),
            !.nextId = @ + 1]

(* Variant: without the inner `const grafastExtensions`, the arg gets the   *)
(* field's own slot object and the arg spec is assigned into it.           *)
ArgSharesFieldSlot(m, T, f, argName, argSpec) ==
  IF argName \notin ArgsOf(T, f)
  THEN Warn(m, "arg", <<T, f, argName>>)
  ELSE IF TypeOf(argSpec) = "function"
  THEN Throw(m, "Invalid configuration for plans: saw a function", <<T, f, "args", argName>>)
  ELSE LET shared == [m.schema.field[T][f].ext EXCEPT !.props = @ \o OwnProps(argSpec)]
       IN [m EXCEPT !.schema.field[T][f].ext = shared,
                    !.schema.field[T][f].args[argName] = shared]

(* One iteration of `for (const [argName, argSpec] of Object.entries(fieldSpec.args))` *)
ArgResult(m, T, f, argName, argSpec) ==
  IF argName \notin ArgsOf(T, f)
  THEN Warn(m, "arg", <<T, f, argName>>)
  ELSE IF TypeOf(argSpec) = "function"
  THEN Throw(m, "Invalid configuration for plans: saw a function", <<T, f, "args", argName>>)
  ELSE [m EXCEPT !.schema.field[T][f].args[argName] = NewSlot(m.nextId, OwnProps(argSpec)),
                 !.nextId = @ + 1]

RECURSIVE ArgsResult(_, _, _, _, _)
(* The loop over the entries of fieldSpec.args from entry n on; a throw ends it. *)
ArgsResult(m, T, f, entries, n) ==
  IF n > Len(entries) \/ m.status = "thrown"
  THEN m
  ELSE ArgsResult(ArgResult(m, T, f, entries[n].k, entries[n].x), T, f, entries, n + 1)

(* Variant: the whole field spec is assigned into the slot. *)
FieldHooksCopyAll(m, T, f, fieldSpec) ==
  LET resolve == Get(fieldSpec, "resolve")
      subscribe == Get(fieldSpec, "subscribe")
  IN [m EXCEPT !.schema.field[T][f].resolve =
                   IF TypeOf(resolve) = "function" THEN resolve ELSE @,
               !.schema.field[T][f].subscribe =
                   IF TypeOf(subscribe) = "function" THEN subscribe ELSE @,
               !.schema.field[T][f].ext.props = OwnProps(fieldSpec)]

(* The hooks of a structured field spec, in the order of the code. *)
FieldHooks(m, T, f, fieldSpec) ==
  LET resolve == Get(fieldSpec, "resolve")
      subscribe == Get(fieldSpec, "subscribe")
      plan == Get(fieldSpec, "plan")
      subscribePlan == Get(fieldSpec, "subscribePlan")
      props == (IF TypeOf(plan) = "function" THEN <<P("plan", plan)>> ELSE <<>>)
               \o (IF TypeOf(subscribePlan) = "function"
                   THEN <<P("subscribePlan", subscribePlan)>> ELSE <<>>)
  IN [m EXCEPT !.schema.field[T][f].resolve =
                   IF TypeOf(resolve) = "function" THEN resolve ELSE @,
               !.schema.field[T][f].subscribe =
                   IF TypeOf(subscribe) = "function" THEN subscribe ELSE @,
               !.schema.field[T][f].ext.props = props]

(* "it's a spec": a new slot is stored first; reading fieldSpec.resolve of *)
(* null or undefined then throws a TypeError; otherwise the hooks and the  *)
(* args are applied.                                                       *)
FieldSpecResult(m, T, f, fieldSpec) ==
  LET m1 == [m EXCEPT !.schema.field[T][f].ext = NewSlot(m.nextId, <<>>), !.nextId = @ + 1]
      args == Get(fieldSpec, "args")
  IN IF fieldSpec.t \in {"null", "undefined"}
     THEN Throw(m1, "TypeError: Cannot read properties", <<"resolve">>)
     ELSE LET m2 == FieldHooks(m1, T, f, fieldSpec)
          IN IF TypeOf(args) = "object" /\ args.t # "null"
             THEN ArgsResult(m2, T, f, args.e, 1)
             ELSE m2

(* console.warn: field not present in the input object type; continue *)
InputFieldNotFoundResult(m, T, f) == Warn(m, "input object field", <<T, f>>)

(* Variant: the slot is allocated and stored before the function check. *)
InputFieldFunctionAfterWrite(m, T, f) ==
  Throw([m EXCEPT !.schema.inputField[T][f] = NewSlot(m.nextId, <<>>), !.nextId = @ + 1],
        "Expected input object field to be an object, but found a function", <<T, f>>)

(* throw new Error(`Expected input object type ... to be an object, but found a function`) *)
InputFieldFunctionResult(m, T, f) == Throw(m, "Expected input object field to be an object, but found a function", <<T, f>>)

(* field.extensions.grafast = Object.create(null); Object.assign(it, fieldSpec) *)
InputFieldSpecResult(m, T, f, fieldSpec) ==
  [m EXCEPT !.schema.inputField[T][f] = NewSlot(m.nextId, OwnProps(fieldSpec)),
            !.nextId = @ + 1]

(* if (polySpec.__resolveType) type.resolveType = polySpec.__resolveType *)
InterfaceOrUnionResult(m, T, spec) ==
  IF Truthy(Get(spec, "__resolveType"))
  THEN [m EXCEPT !.schema.resolveType[T] = Get(spec, "__resolveType")]
  ELSE m

(* The three native hooks and the type-level plan of a scalar. *)
ScalarResult(m, T, spec) ==
  LET hook(key, old) == IF TypeOf(Get(spec, key)) = "function" THEN Get(spec, key) ELSE old
      withPlan == TypeOf(Get(spec, "plan")) = "function"
  IN [m EXCEPT !.schema.scalar[T].serialize = hook("serialize", @),
               !.schema.scalar[T].parseValue = hook("parseValue", @),
               !.schema.scalar[T].parseLiteral = hook("parseLiteral", @),
               !.schema.typeExt[T] =
                   IF withPlan THEN NewSlot(m.nextId, <<P("plan", Get(spec, "plan"))>>) ELSE @,
               !.nextId = IF withPlan THEN @ + 1 ELSE @]

(* console.warn: value not present in the enum type; continue *)
EnumValueNotFoundResult(m, T, name) == Warn(m, "enum value", <<T, name>>)

(* enumValue.extensions.grafast = { applyPlan: enumValueSpec } *)
EnumValuePlanResult(m, T, name, enumValueSpec) ==
  [m EXCEPT !.schema.enumValue[T][name].ext = NewSlot(m.nextId, <<P("applyPlan", enumValueSpec)>>),
            !.nextId = @ + 1]

(* Variant: `if (enumValueSpec.value)` in place of `"value" in enumValueSpec`. *)
EnumValueSpecTruthyValue(m, T, name, enumValueSpec) ==
  LET withPlan == Truthy(Get(enumValueSpec, "applyPlan"))
  IN [m EXCEPT !.schema.enumValue[T][name].ext =
                   IF withPlan
                   THEN NewSlot(m.nextId, <<P("applyPlan", Get(enumValueSpec, "applyPlan"))>>)
                   ELSE @,
               !.nextId = IF withPlan THEN @ + 1 ELSE @,
               !.schema.enumValue[T][name].value =
                   IF Truthy(Get(enumValueSpec, "value")) THEN Get(enumValueSpec, "value") ELSE @]

(* "It's a full spec": applyPlan when truthy, value when the key is present *)
EnumValueSpecResult(m, T, name, enumValueSpec) ==
  LET withPlan == Truthy(Get(enumValueSpec, "applyPlan"))
  IN [m EXCEPT !.schema.enumValue[T][name].ext =
                   IF withPlan
                   THEN NewSlot(m.nextId, <<P("applyPlan", Get(enumValueSpec, "applyPlan"))>>)
                   ELSE @,
               !.nextId = IF withPlan THEN @ + 1 ELSE @,
               !.schema.enumValue[T][name].value =
                   IF Has(enumValueSpec, "value") THEN Get(enumValueSpec, "value") ELSE @]

(* "It must be the value": enumValue.value = enumValueSpec *)
EnumValueValueResult(m, T, name, enumValueSpec) ==
  [m EXCEPT !.schema.enumValue[T][name].value = enumValueSpec]

-----------------------------------------------------------------------------
(* Which branch of the loop body an entry of a type spec takes. *)

(* Variant: the field is looked up before the `__` prefix is checked. *)
ObjectBranchLookupFirst(T, fieldName, fieldSpec) ==
  CASE fieldName = "__assertStep" -> "assertStep"
    [] fieldName # "__assertStep" /\ fieldName \notin FieldsOf(T) -> "notFound"
    [] fieldName # "__assertStep" /\ fieldName \in FieldsOf(T)
         /\ TypeOf(fieldSpec) = "function" -> "plan"
    [] OTHER -> "spec"

ObjectBranch(T, fieldName, fieldSpec) ==
  CASE fieldName = "__assertStep" -> "assertStep"
    [] fieldName # "__assertStep" /\ StartsWithDunder(fieldName) -> "unsupported"
    [] ~StartsWithDunder(fieldName) /\ fieldName \notin FieldsOf(T) -> "notFound"
    [] ~StartsWithDunder(fieldName) /\ fieldName \in FieldsOf(T)
         /\ TypeOf(fieldSpec) = "function" -> "plan"
    [] OTHER -> "spec"

InputBranch(T, fieldName, fieldSpec) ==
  CASE fieldName \notin InputFieldsOf(T) -> "notFound"
    [] fieldName \in InputFieldsOf(T) /\ TypeOf(fieldSpec) = "function" -> "function"
    [] OTHER -> "spec"

EnumBranch(T, name, enumValueSpec) ==
  CASE name \notin ValuesOf(T) -> "notFound"
    [] name \in ValuesOf(T) /\ TypeOf(enumValueSpec) = "function" -> "plan"
    [] name \in ValuesOf(T) /\ TypeOf(enumValueSpec) = "object"
         /\ enumValueSpec.t # "null" -> "spec"
    [] OTHER -> "value"

-----------------------------------------------------------------------------
(* The `plans` maps the merge is run on.  A map is the sequence of its     *)
(* entries in insertion order (Object.entries), each [name, spec]; the     *)
(* keys of one object are distinct.                                        *)

AutoApply == Obj(<<P("autoApply", Bool("true"))>>)
ArgPlans == Obj(<<P("applyPlan", Fn("A")), P("inputPlan", Fn("I"))>>)

ObjectPool ==
  { P("hello", Fn("P")),
    P("hello", Obj(<<P("plan", Fn("P")), P("args", Obj(<<P("name", AutoApply)>>))>>)),
    P("hello", Obj(<<P("resolve", Fn("R")), P("plan", Fn("P2"))>>)),
    P("hello", Obj(<<P("plan", Str("notAFunction")), P("resolve", Fn("R"))>>)),
    P("hello", Obj(<<P("args", Obj(<<P("nope", AutoApply), P("name", ArgPlans)>>))>>)),
    P("hello", Obj(<<P("resolve", Fn("R")), P("args", Obj(<<P("nope", AutoApply), P("name", Fn("A"))>>))>>)),
    P("hello", Null),
    P("goodbye", Fn("P2")),
    P("goodbye", Obj(<<P("resolve", Fn("R")), P("subscribe", Fn("S")), P("subscribePlan", Fn("SP"))>>)),
    P("nope", Fn("P")),
    P("__assertStep", Fn("AS")),
    P("__foo", Fn("P")),
    P("__bar", Fn("P")) }

InputPool ==
  { P("a", Fn("F")),
    P("a", Obj(<<P("applyPlan", Fn("A"))>>)),
    P("b", ArgPlans),
    P("zz", AutoApply) }

PolyPool ==
  { P("__resolveType", Fn("RT")),
    P("__resolveType", Null),
    P("__foo", Fn("F")) }

ScalarPool ==
  { P("serialize", Fn("SER")),
    P("plan", Fn("P")),
    P("parseValue", Str("notAFunction")) }

EnumPool ==
  { P("RED", Fn("A")),
    P("RED", Num("0")),
    P("RED", Obj(<<P("value", Num("0"))>>)),
    P("RED", Obj(<<P("applyPlan", Fn("A")), P("value", Null)>>)),
    P("GREEN", Obj(<<P("value", Undef)>>)),
    P("GREEN", Obj(<<P("applyPlan", Fn("A"))>>)),
    P("BLUE", Num("1")),
    P("__foo", Str("x")) }

PoolOf(T) ==
  CASE KindOf(T) = "Object" -> ObjectPool
    [] KindOf(T) = "InputObject" -> InputPool
    [] KindOf(T) = "InterfaceOrUnion" -> PolyPool
    [] KindOf(T) = "Scalar" -> ScalarPool
    [] KindOf(T) = "Enum" -> EnumPool
    [] OTHER -> {P("x", Fn("F"))}

TypeNames == SchemaTypes \cup {"Missing"}

(* Type specs that are not objects with keys: null, a function, {}. *)
BareSpecs == {Null, Fn("F"), Obj(<<>>)}

(* The object specs with w keys for type T. *)
ObjectSpecs(T, w) ==
  { Obj(s) : s \in { s \in [1..w -> PoolOf(T)] :
                       \A a, b \in 1..w : a # b => s[a].k # s[b].k } }

(* The type entries that count for w leaf entries. *)
TypeEntries(w) ==
  { [name |-> T, spec |-> sp] :
      T \in TypeNames, sp \in (IF w = 1 THEN BareSpecs ELSE {}) }
  \cup UNION { { [name |-> T, spec |-> sp] : sp \in ObjectSpecs(T, w) } : T \in TypeNames }

RECURSIVE IsConfig(_, _, _)
(* c is `prefix` followed by type entries of at most n leaf entries in     *)
(* all, type names distinct.                                               *)
IsConfig(c, prefix, n) ==
  \/ c = prefix
  \/ \E w \in 1..n : \E en \in TypeEntries(w) :
       /\ \A q \in 1..Len(prefix) : prefix[q].name # en.name
       /\ IsConfig(c, Append(prefix, en), n - w)

-----------------------------------------------------------------------------
(* The loop.  i is the index of the current entry of `plans`, j the index  *)
(* of the current entry of its spec (0 before the inner loop starts).      *)

Init ==
  /\ IsConfig(plans, <<>>, MaxEntries)
  /\ schema = InitSchema
  /\ warnings = <<>>
  /\ status = "running"
  /\ error = NoError
  /\ nextId = 1
  /\ i = 1
  /\ j = 0

Cur == [schema |-> schema, warnings |-> warnings, status |-> status, error |-> error, nextId |-> nextId]

Set(m) ==
  /\ schema' = m.schema
  /\ warnings' = m.warnings
  /\ status' = m.status
  /\ error' = m.error
  /\ nextId' = m.nextId

AtType == status = "running" /\ i <= Len(plans) /\ j = 0
AtEntry == status = "running" /\ i <= Len(plans) /\ j >= 1

typeName == plans[i].name
spec == plans[i].spec
key == spec.e[j].k
val == spec.e[j].x

NextType == i' = i + 1 /\ j' = 0 /\ UNCHANGED plans

(* After the body of the inner loop: stay where the throw happened, or     *)
(* move to the next entry of the spec, or to the next type.                *)
Advance ==
  /\ UNCHANGED plans
  /\ IF status' = "thrown"
     THEN UNCHANGED <<i, j>>
     ELSE IF j < Len(spec.e) THEN i' = i /\ j' = j + 1 ELSE i' = i + 1 /\ j' = 0

TypeNotFound ==
  /\ AtType /\ KindOf(typeName) = "None"
  /\ Set(TypeNotFoundResult(Cur, typeName))
  /\ NextType

InvalidConfig ==
  /\ AtType /\ KindOf(typeName) # "None" /\ NotAnObject(spec)
  /\ Set(InvalidConfigResult(Cur, typeName))
  /\ UNCHANGED <<plans, i, j>>

(* Object.entries(spec) of an object, input object or enum type *)
EnterEntries ==
  /\ AtType /\ KindOf(typeName) \in {"Object", "InputObject", "Enum"} /\ ~NotAnObject(spec)
  /\ IF Len(spec.e) = 0 THEN i' = i + 1 /\ j' = 0 ELSE i' = i /\ j' = 1
  /\ UNCHANGED <<plans, schema, warnings, status, error, nextId>>

InterfaceOrUnion ==
  /\ AtType /\ KindOf(typeName) = "InterfaceOrUnion" /\ ~NotAnObject(spec)
  /\ Set(InterfaceOrUnionResult(Cur, typeName, spec))
  /\ NextType

Scalar ==
  /\ AtType /\ KindOf(typeName) = "Scalar" /\ ~NotAnObject(spec)
  /\ Set(ScalarResult(Cur, typeName, spec))
  /\ NextType

AtObject(branch) == AtEntry /\ KindOf(typeName) = "Object" /\ ObjectBranch(typeName, key, val) = branch
AtInput(branch) == AtEntry /\ KindOf(typeName) = "InputObject" /\ InputBranch(typeName, key, val) = branch
AtEnum(branch) == AtEntry /\ KindOf(typeName) = "Enum" /\ EnumBranch(typeName, key, val) = branch

AssertStep == AtObject("assertStep") /\ Set(AssertStepResult(Cur, typeName, val)) /\ Advance
UnsupportedFieldName == AtObject("unsupported") /\ Set(UnsupportedFieldNameResult(Cur, key)) /\ Advance
FieldNotFound == AtObject("notFound") /\ Set(FieldNotFoundResult(Cur, typeName, key)) /\ Advance
FieldPlan == AtObject("plan") /\ Set(FieldPlanResult(Cur, typeName, key, val)) /\ Advance
FieldSpec == AtObject("spec") /\ Set(FieldSpecResult(Cur, typeName, key, val)) /\ Advance

InputFieldNotFound == AtInput("notFound") /\ Set(InputFieldNotFoundResult(Cur, typeName, key)) /\ Advance
InputFieldFunction == AtInput("function") /\ Set(InputFieldFunctionResult(Cur, typeName, key)) /\ Advance
InputFieldSpec == AtInput("spec") /\ Set(InputFieldSpecResult(Cur, typeName, key, val)) /\ Advance

EnumValueNotFound == AtEnum("notFound") /\ Set(EnumValueNotFoundResult(Cur, typeName, key)) /\ Advance
EnumValuePlan == AtEnum("plan") /\ Set(EnumValuePlanResult(Cur, typeName, key, val)) /\ Advance
EnumValueSpec == AtEnum("spec") /\ Set(EnumValueSpecResult(Cur, typeName, key, val)) /\ Advance
EnumValueValue == AtEnum("value") /\ Set(EnumValueValueResult(Cur, typeName, key, val)) /\ Advance

(* return schema *)
Return ==
  /\ status = "running" /\ i = Len(plans) + 1
  /\ status' = "returned"
  /\ UNCHANGED <<plans, schema, warnings, error, nextId, i, j>>

Next ==
  \/ TypeNotFound \/ InvalidConfig \/ EnterEntries \/ InterfaceOrUnion \/ Scalar
  \/ AssertStep \/ UnsupportedFieldName \/ FieldNotFound \/ FieldPlan \/ FieldSpec
  \/ InputFieldNotFound \/ InputFieldFunction \/ InputFieldSpec
  \/ EnumValueNotFound \/ EnumValuePlan \/ EnumValueSpec \/ EnumValueValue
  \/ Return

Spec == Init /\ [][Next]_vars

-----------------------------------------------------------------------------
(* makeGrafastSchema as a function of `plans`: the same loop body, run to  *)
(* the return or to the first throw.                                       *)

M0 == [schema |-> InitSchema, warnings |-> <<>>, status |-> "running", error |-> NoError, nextId |-> 1]

(* The body of the inner loop for one entry [k, x] of the spec of type T. *)
EntryResult(m, T, k, x) ==
  CASE KindOf(T) = "Object" ->
         ( CASE ObjectBranch(T, k, x) = "assertStep" -> AssertStepResult(m, T, x)
             [] ObjectBranch(T, k, x) = "unsupported" -> UnsupportedFieldNameResult(m, k)
             [] ObjectBranch(T, k, x) = "notFound" -> FieldNotFoundResult(m, T, k)
             [] ObjectBranch(T, k, x) = "plan" -> FieldPlanResult(m, T, k, x)
             [] OTHER -> FieldSpecResult(m, T, k, x) )
    [] KindOf(T) = "InputObject" ->
         ( CASE InputBranch(T, k, x) = "notFound" -> InputFieldNotFoundResult(m, T, k)
             [] InputBranch(T, k, x) = "function" -> InputFieldFunctionResult(m, T, k)
             [] OTHER -> InputFieldSpecResult(m, T, k, x) )
    [] OTHER ->
         ( CASE EnumBranch(T, k, x) = "notFound" -> EnumValueNotFoundResult(m, T, k)
             [] EnumBranch(T, k, x) = "plan" -> EnumValuePlanResult(m, T, k, x)
             [] EnumBranch(T, k, x) = "spec" -> EnumValueSpecResult(m, T, k, x)
             [] OTHER -> EnumValueValueResult(m, T, k, x) )

RECURSIVE EntriesResult(_, _, _, _)
EntriesResult(m, T, entries, n) ==
  IF n > Len(entries) \/ m.status = "thrown"
  THEN m
  ELSE EntriesResult(EntryResult(m, T, entries[n].k, entries[n].x), T, entries, n + 1)

(* The body of the outer loop for one entry of `plans`. *)
TypeResult(m, T, sp) ==
  CASE KindOf(T) = "None" -> TypeNotFoundResult(m, T)
    [] KindOf(T) # "None" /\ NotAnObject(sp) -> InvalidConfigResult(m, T)
    [] KindOf(T) = "InterfaceOrUnion" /\ ~NotAnObject(sp) -> InterfaceOrUnionResult(m, T, sp)
    [] KindOf(T) = "Scalar" /\ ~NotAnObject(sp) -> ScalarResult(m, T, sp)
    [] OTHER -> EntriesResult(m, T, sp.e, 1)

RECURSIVE PlansResult(_, _, _)
PlansResult(m, ps, n) ==
  IF m.status = "thrown"
  THEN m
  ELSE IF n > Len(ps)
  THEN [m EXCEPT !.status = "returned"]
  ELSE PlansResult(TypeResult(m, ps[n].name, ps[n].spec), ps, n + 1)

-----------------------------------------------------------------------------
(* Vocabulary of the properties.                                           *)

(* The positions <<ti, ki>> of the leaf entries of `plans`. *)
Positions == UNION { { <<ti, ki>> : ki \in 1..Len(plans[ti].spec.e) } : ti \in 1..Len(plans) }
NameAt(pos) == plans[pos[1]].name
KeyAt(pos) == plans[pos[1]].spec.e[pos[2]].k
ValAt(pos) == plans[pos[1]].spec.e[pos[2]].x
KindAt(pos) == KindOf(NameAt(pos))

(* The loop has gone past the entry (without throwing in it). *)
TypeDone(ti) == ti < i
Done(pos) == pos[1] < i \/ (pos[1] = i /\ pos[2] < j)
(* The loop has run the body for the entry: gone past it, or thrown in it. *)
Reached(pos) == Done(pos) \/ (status = "thrown" /\ pos = <<i, j>>)
After(pos) == pos[1] > i \/ (pos[1] = i /\ pos[2] > j)

(* The schema up to the identities of the allocated slots. *)
StripSlot(slot) == [id |-> IF slot.id > 0 THEN 1 ELSE 0, props |-> slot.props]
Contents(sch) ==
  [ typeExt |-> [T \in DOMAIN sch.typeExt |-> StripSlot(sch.typeExt[T])],
    field |-> [T \in DOMAIN sch.field |-> [f \in DOMAIN sch.field[T] |->
                 [resolve |-> sch.field[T][f].resolve,
                  subscribe |-> sch.field[T][f].subscribe,
                  ext |-> StripSlot(sch.field[T][f].ext),
                  args |-> [a \in DOMAIN sch.field[T][f].args |->
                              StripSlot(sch.field[T][f].args[a])]]]],
    inputField |-> [T \in DOMAIN sch.inputField |-> [f \in DOMAIN sch.inputField[T] |->
                 StripSlot(sch.inputField[T][f])]],
    resolveType |-> sch.resolveType,
    scalar |-> sch.scalar,
    enumValue |-> [T \in DOMAIN sch.enumValue |-> [n \in DOMAIN sch.enumValue[T] |->
                 [value |-> sch.enumValue[T][n].value,
                  ext |-> StripSlot(sch.enumValue[T][n].ext)]]] ]

(* The identities of the slots written so far, with where they are stored. *)
SlotsOf(sch) ==
  { <<"type", T, "", "", sch.typeExt[T].id>> : T \in DOMAIN sch.typeExt }
  \cup UNION { { <<"field", T, f, "", sch.field[T][f].ext.id>> : f \in DOMAIN sch.field[T] }
               : T \in DOMAIN sch.field }
  \cup UNION { UNION { { <<"arg", T, f, a, sch.field[T][f].args[a].id>>
                         : a \in DOMAIN sch.field[T][f].args }
                       : f \in DOMAIN sch.field[T] } : T \in DOMAIN sch.field }
  \cup UNION { { <<"inputField", T, f, "", sch.inputField[T][f].id>>
                 : f \in DOMAIN sch.inputField[T] } : T \in DOMAIN sch.inputField }
  \cup UNION { { <<"enumValue", T, n, "", sch.enumValue[T][n].ext.id>>
                 : n \in DOMAIN sch.enumValue[T] } : T \in DOMAIN sch.enumValue }

(* The slot is an object of its own: written, and stored nowhere else. *)
Fresh(slot) == slot.id > 0 /\ Cardinality({ s \in SlotsOf(schema) : s[5] = slot.id }) = 1

(* The entry of `plans` for type T, or none. *)
Configured(T) == \E ti \in 1..Len(plans) : plans[ti].name = T
SpecOf(T) == plans[CHOOSE ti \in 1..Len(plans) : plans[ti].name = T].spec
HasKey(T, k) == Configured(T) /\ Has(SpecOf(T), k)
ValOf(T, k) == Get(SpecOf(T), k)


(* The entry names a field or value that the type does not have. *)
AbsentEntry(pos) ==
  CASE KindAt(pos) = "Object" -> ~StartsWithDunder(KeyAt(pos)) /\ KeyAt(pos) \notin FieldsOf(NameAt(pos))
    [] KindAt(pos) = "InputObject" -> KeyAt(pos) \notin InputFieldsOf(NameAt(pos))
    [] KindAt(pos) = "Enum" -> KeyAt(pos) \notin ValuesOf(NameAt(pos))
    [] OTHER -> FALSE

(* The entry is a structured (non-function) spec of a field the object type has. *)
StructuredField(pos) ==
  /\ KindAt(pos) = "Object" /\ ~StartsWithDunder(KeyAt(pos))
  /\ KeyAt(pos) \in FieldsOf(NameAt(pos)) /\ ValAt(pos).t # "function"

(* The entries of fieldSpec.args, when it is an object. *)
ArgEntries(x) == IF Get(x, "args").t = "object" THEN Get(x, "args").e ELSE <<>>

(* The indexes of the args entries that give a function for an arg the field has. *)
BadArgs(T, f, x) ==
  { n \in 1..Len(ArgEntries(x)) :
      ArgEntries(x)[n].k \in ArgsOf(T, f) /\ ArgEntries(x)[n].x.t = "function" }

(* The args entries that name an arg the field does not have and come      *)
(* before any function given for an arg it has.                            *)
AbsentArgs(T, f, x) ==
  { ArgEntries(x)[n].k : n \in { n \in 1..Len(ArgEntries(x)) :
      /\ ArgEntries(x)[n].k \notin ArgsOf(T, f)
      /\ \A q \in BadArgs(T, f, x) : q > n } }

(* The places of `plans` that are fatal: <<ti, 0>> for a type spec that is  *)
(* not an object, <<ti, ki>> for an entry of a spec.                       *)
FatalEntry(pos) ==
  CASE KindAt(pos) = "Object" ->
         \/ StartsWithDunder(KeyAt(pos)) /\ KeyAt(pos) # "__assertStep"
         \/ StructuredField(pos) /\ ( \/ ValAt(pos).t \in {"null", "undefined"}
                                      \/ BadArgs(NameAt(pos), KeyAt(pos), ValAt(pos)) # {} )
    [] KindAt(pos) = "InputObject" ->
         KeyAt(pos) \in InputFieldsOf(NameAt(pos)) /\ ValAt(pos).t = "function"
    [] OTHER -> FALSE

FatalSpots ==
  { <<ti, 0>> : ti \in { ti \in 1..Len(plans) :
                           KindOf(plans[ti].name) # "None" /\ plans[ti].spec.t # "object" } }
  \cup { pos \in Positions : FatalEntry(pos) }

Earlier(a, b) == a[1] < b[1] \/ (a[1] = b[1] /\ a[2] < b[2])

(* The error the code raises for the fatal place s. *)
ErrorAt(s) ==
  LET T == plans[s[1]].name
  IN IF s[2] = 0
     THEN [kind |-> InvalidConfigError(T), at |-> <<T>>]
     ELSE IF KindOf(T) = "InputObject"
     THEN [kind |-> "Expected input object field to be an object, but found a function",
           at |-> <<T, KeyAt(s)>>]
     ELSE IF StartsWithDunder(KeyAt(s))
     THEN [kind |-> "Unsupported field name", at |-> <<KeyAt(s)>>]
     ELSE IF ValAt(s).t \in {"null", "undefined"}
     THEN [kind |-> "TypeError: Cannot read properties", at |-> <<"resolve">>]
     ELSE LET n == CHOOSE n \in BadArgs(T, KeyAt(s), ValAt(s)) :
                     \A q \in BadArgs(T, KeyAt(s), ValAt(s)) : n <= q
          IN [kind |-> "Invalid configuration for plans: saw a function",
              at |-> <<T, KeyAt(s), "args", ArgEntries(ValAt(s))[n].k>>]

(* Nothing of type T differs from the schema as built. *)
TypeUntouched(T) ==
  /\ T \in DOMAIN schema.typeExt => schema.typeExt[T] = InitSchema.typeExt[T]
  /\ T \in DOMAIN schema.field => schema.field[T] = InitSchema.field[T]
  /\ T \in DOMAIN schema.inputField => schema.inputField[T] = InitSchema.inputField[T]
  /\ T \in DOMAIN schema.resolveType => schema.resolveType[T] = InitSchema.resolveType[T]
  /\ T \in DOMAIN schema.scalar => schema.scalar[T] = InitSchema.scalar[T]
  /\ T \in DOMAIN schema.enumValue => schema.enumValue[T] = InitSchema.enumValue[T]

(* What the entry at pos would write to is as built. *)
Untouched(pos) ==
  LET T == NameAt(pos)
      k == KeyAt(pos)
  IN CASE KindAt(pos) = "Object" /\ k = "__assertStep" -> schema.typeExt[T] = NoSlot
       [] KindAt(pos) = "Object" /\ k # "__assertStep" /\ k \in FieldsOf(T) ->
            schema.field[T][k] = InitSchema.field[T][k]
       [] KindAt(pos) = "InputObject" /\ k \in InputFieldsOf(T) -> schema.inputField[T][k] = NoSlot
       [] KindAt(pos) = "Enum" /\ k \in ValuesOf(T) ->
            schema.enumValue[T][k] = InitSchema.enumValue[T][k]
       [] OTHER -> TRUE

(* The entries after the current place have written nothing. *)
NothingAfterApplied ==
  /\ \A pos \in Positions : After(pos) => Untouched(pos)
  /\ \A ti \in 1..Len(plans) : ti > i => TypeUntouched(plans[ti].name)

(* The schema, node by node, that the entries reached so far account for:  *)
(* each node holds what the one entry that names it writes to the schema   *)
(* as built, and every other node is as built.                             *)
ReachedKey(T, k) == \E pos \in Positions : Reached(pos) /\ NameAt(pos) = T /\ KeyAt(pos) = k
ReachedSpec(T) == \E ti \in 1..Len(plans) : TypeDone(ti) /\ plans[ti].name = T /\ plans[ti].spec.t = "object"
Written(T, k) == EntryResult(M0, T, k, ValOf(T, k)).schema
ExpectedSchema ==
  Contents(
  [ typeExt |-> [T \in DOMAIN InitSchema.typeExt |->
       CASE KindOf(T) = "Object" /\ ReachedKey(T, "__assertStep") ->
              NewSlot(1, <<P("assertStep", ValOf(T, "__assertStep"))>>)
         [] KindOf(T) = "Scalar" /\ ReachedSpec(T) /\ ValOf(T, "plan").t = "function" ->
              NewSlot(1, <<P("plan", ValOf(T, "plan"))>>)
         [] OTHER -> NoSlot],
    field |-> [T \in DOMAIN InitSchema.field |-> [f \in DOMAIN InitSchema.field[T] |->
       IF ReachedKey(T, f) /\ ~StartsWithDunder(f)
       THEN Written(T, f).field[T][f] ELSE InitSchema.field[T][f]]],
    inputField |-> [T \in DOMAIN InitSchema.inputField |-> [f \in DOMAIN InitSchema.inputField[T] |->
       IF ReachedKey(T, f) /\ ValOf(T, f).t # "function"
       THEN NewSlot(1, OwnProps(ValOf(T, f))) ELSE NoSlot]],
    resolveType |-> [T \in DOMAIN InitSchema.resolveType |->
       IF ReachedSpec(T) /\ Truthy(ValOf(T, "__resolveType"))
       THEN ValOf(T, "__resolveType") ELSE InitSchema.resolveType[T]],
    scalar |-> [T \in DOMAIN InitSchema.scalar |-> [h \in {"serialize", "parseValue", "parseLiteral"} |->
       IF ReachedSpec(T) /\ ValOf(T, h).t = "function"
       THEN ValOf(T, h) ELSE InitSchema.scalar[T][h]]],
    enumValue |-> [T \in DOMAIN InitSchema.enumValue |-> [n \in DOMAIN InitSchema.enumValue[T] |->
       IF ReachedKey(T, n) THEN Written(T, n).enumValue[T][n] ELSE InitSchema.enumValue[T][n]]] ])

(* The warnings the entries reached so far account for. *)
ExpectedWarnings ==
  { [kind |-> "type", at |-> <<plans[ti].name>>] :
      ti \in { ti \in 1..Len(plans) : TypeDone(ti) /\ KindOf(plans[ti].name) = "None" } }
  \cup { [kind |-> (CASE KindAt(pos) = "Object" -> "object field"
                      [] KindAt(pos) = "InputObject" -> "input object field"
                      [] OTHER -> "enum value"),
          at |-> <<NameAt(pos), KeyAt(pos)>>] :
      pos \in { pos \in Positions : Reached(pos) /\ AbsentEntry(pos) } }
  \cup UNION { { [kind |-> "arg", at |-> <<NameAt(pos), KeyAt(pos), a>>] :
                   a \in AbsentArgs(NameAt(pos), KeyAt(pos), ValAt(pos)) } :
               pos \in { pos \in Positions : Reached(pos) /\ StructuredField(pos) } }


-----------------------------------------------------------------------------
(* Properties.                                                             *)

(* C1: an entry that names a type, field, argument or enum value absent    *)
(* from the schema is never where the merge throws; the warnings emitted   *)
(* are exactly one per absent reference reached, each with its exact path; *)
(* and the schema holds exactly what the other (present) entries reached   *)
(* write, so nothing is written for the absent reference and the present   *)
(* entries of the same map are still merged.                               *)
C1_AbsentIsNonFatal ==
  /\ status = "thrown" =>
       /\ IF j = 0 THEN KindOf(typeName) # "None" ELSE ~AbsentEntry(<<i, j>>)
       /\ error.kind = "Invalid configuration for plans: saw a function" =>
            error.at[4] \in ArgsOf(error.at[1], error.at[2])
  /\ { warnings[n] : n \in 1..Len(warnings) } = ExpectedWarnings
  /\ Len(warnings) = Cardinality(ExpectedWarnings)
  /\ Contents(schema) = ExpectedSchema

(* C1 witness: a merge that returned after warning about an absent field   *)
(* or value and after merging a present entry of the same map.             *)
C1_Witness ==
  /\ status = "returned"
  /\ \E pos \in Positions : AbsentEntry(pos)
  /\ Len(warnings) >= 1
  /\ schema # InitSchema

InputFn(pos) ==
  /\ KindAt(pos) = "InputObject" /\ KeyAt(pos) \in InputFieldsOf(NameAt(pos))
  /\ ValAt(pos).t = "function"

InputFnError(pos) ==
  [kind |-> "Expected input object field to be an object, but found a function",
   at |-> <<NameAt(pos), KeyAt(pos)>>]

(* C2, as claimed: when the merge raises the fatal error for a bare        *)
(* function given to an input-object field, no field of the schema has     *)
(* been mutated by that merge, wherever the other entries stand.           *)
C2_NoFieldMutated ==
  (status = "thrown" /\ \E pos \in Positions : InputFn(pos) /\ error = InputFnError(pos))
    => (schema.field = InitSchema.field /\ schema.inputField = InitSchema.inputField)

(* C2, amended: the loop never gets past a bare function given to an       *)
(* existing input-object field; when it throws there the error names the   *)
(* type and the field, the field itself and everything the later entries   *)
(* name are as built, and the schema holds exactly what the entries before *)
(* it wrote.                                                               *)
C2_InputFunctionIsFatal ==
  \A pos \in Positions : InputFn(pos) =>
    /\ ~Done(pos)
    /\ (status = "thrown" /\ pos = <<i, j>>) =>
         /\ error = InputFnError(pos)
         /\ schema.inputField[NameAt(pos)][KeyAt(pos)] = NoSlot
         /\ NothingAfterApplied
         /\ Contents(schema) = ExpectedSchema

(* C2 witness: thrown at a bare function for an input field after an       *)
(* earlier entry has been merged.                                          *)
C2_Witness ==
  /\ status = "thrown" /\ j >= 1 /\ InputFn(<<i, j>>)
  /\ schema.field # InitSchema.field

EnumSpec(pos) ==
  /\ KindAt(pos) = "Enum" /\ KeyAt(pos) \in ValuesOf(NameAt(pos))
  /\ ValAt(pos).t = "object"

(* C3: for an existing enum value whose spec is a structured object, once  *)
(* the entry is merged the internal value is the supplied `value` when the *)
(* key is present (falsy or not) and the value as built when it is absent. *)
C3_EnumValueKey ==
  \A pos \in Positions : (Done(pos) /\ EnumSpec(pos)) =>
    schema.enumValue[NameAt(pos)][KeyAt(pos)].value =
      IF "value" \in Keys(ValAt(pos).e)
      THEN Get(ValAt(pos), "value")
      ELSE InitSchema.enumValue[NameAt(pos)][KeyAt(pos)].value

(* C3 witness: a returned merge with one structured enum spec holding a    *)
(* falsy `value` and one without the key.                                  *)
C3_Witness ==
  /\ status = "returned"
  /\ \E pos \in Positions : EnumSpec(pos) /\ Has(ValAt(pos), "value") /\ ~Truthy(Get(ValAt(pos), "value"))
  /\ \E pos \in Positions : EnumSpec(pos) /\ ~Has(ValAt(pos), "value")

BareFunctionField(pos) ==
  /\ KindAt(pos) = "Object" /\ ~StartsWithDunder(KeyAt(pos))
  /\ KeyAt(pos) \in FieldsOf(NameAt(pos)) /\ ValAt(pos).t = "function"

(* C4: for an existing object field whose spec is a bare function F, once  *)
(* the entry is merged the field's slot holds plan = F and no other key,   *)
(* and resolve, subscribe and the slots of its arguments are as built.     *)
C4_BareFunctionIsPlan ==
  \A pos \in Positions : (Done(pos) /\ BareFunctionField(pos)) =>
    LET fld == schema.field[NameAt(pos)][KeyAt(pos)]
        was == InitSchema.field[NameAt(pos)][KeyAt(pos)]
    IN /\ fld.ext.id > 0
       /\ fld.ext.props = <<P("plan", ValAt(pos))>>
       /\ fld.resolve = was.resolve
       /\ fld.subscribe = was.subscribe
       /\ fld.args = was.args

(* C4 witness: a returned merge that had a bare function for a field with  *)
(* an argument.                                                            *)
C4_Witness ==
  /\ status = "returned"
  /\ \E pos \in Positions : BareFunctionField(pos) /\ ArgsOf(NameAt(pos), KeyAt(pos)) # {}

ResolveField(pos) == StructuredField(pos) /\ Get(ValAt(pos), "resolve").t = "function"

(* C5: for an existing object field whose spec is a structured object with *)
(* a function `resolve`, once the entry is merged the native resolve hook  *)
(* is that function and the slot is an object of its own whose keys are    *)
(* among plan and subscribePlan, each present in the spec with that value. *)
C5_StructuredWithResolve ==
  \A pos \in Positions : (Done(pos) /\ ResolveField(pos)) =>
    LET fld == schema.field[NameAt(pos)][KeyAt(pos)]
    IN /\ fld.resolve = Get(ValAt(pos), "resolve")
       /\ Fresh(fld.ext)
       /\ Keys(fld.ext.props) \subseteq {"plan", "subscribePlan"}
       /\ \A n \in 1..Len(fld.ext.props) :
            /\ Has(ValAt(pos), fld.ext.props[n].k)
            /\ fld.ext.props[n].x = Get(ValAt(pos), fld.ext.props[n].k)

(* C5 witness: a returned merge with a spec holding resolve and a function *)
(* plan, and another slot written by the same merge.                       *)
C5_Witness ==
  /\ status = "returned"
  /\ \E pos \in Positions : ResolveField(pos) /\ Get(ValAt(pos), "plan").t = "function"
  /\ nextId > 2

(* plans = {T: {f: {plan: fn, args: {a: S}}}} with S a non-function object *)
(* and a an argument of f.                                                 *)
PlanAndArgConfig ==
  /\ Len(plans) = 1 /\ KindOf(plans[1].name) = "Object"
  /\ plans[1].spec.t = "object" /\ Len(plans[1].spec.e) = 1
  /\ StructuredField(<<1, 1>>)
  /\ Keys(ValAt(<<1, 1>>).e) = {"plan", "args"}
  /\ Get(ValAt(<<1, 1>>), "plan").t = "function"
  /\ Len(ArgEntries(ValAt(<<1, 1>>))) = 1
  /\ ArgEntries(ValAt(<<1, 1>>))[1].k \in ArgsOf(NameAt(<<1, 1>>), KeyAt(<<1, 1>>))
  /\ ArgEntries(ValAt(<<1, 1>>))[1].x.t = "object"

(* C6: after the merge of {T: {f: {plan: fn, args: {a: S}}}} the slot of f *)
(* holds exactly plan = fn, the slot of a is an object of its own with     *)
(* exactly the keys and values of S, and every other hook and slot of the  *)
(* schema (the other fields of T among them) is as built.                  *)
C6_PlanAndArg ==
  (status = "returned" /\ PlanAndArgConfig) =>
    LET T == NameAt(<<1, 1>>)
        f == KeyAt(<<1, 1>>)
        a == ArgEntries(ValAt(<<1, 1>>))[1].k
        fld == schema.field[T][f]
    IN /\ fld.ext.props = <<P("plan", Get(ValAt(<<1, 1>>), "plan"))>>
       /\ Fresh(fld.ext)
       /\ fld.args[a].props = ArgEntries(ValAt(<<1, 1>>))[1].x.e
       /\ Fresh(fld.args[a])
       /\ [schema EXCEPT !.field[T][f].ext = NoSlot, !.field[T][f].args[a] = NoSlot] = InitSchema

(* C6 witness: such a merge has returned. *)
C6_Witness == status = "returned" /\ PlanAndArgConfig

(* C7: a merge that throws has thrown at the first fatal place of `plans`  *)
(* in iteration order, with the error of that place, and nothing that an   *)
(* entry after it names has been written; a merge that returns the schema  *)
(* ran on a map with no fatal place and has merged every present entry.    *)
C7_FirstViolationAborts ==
  /\ status = "thrown" =>
       /\ <<i, j>> \in FatalSpots
       /\ \A s \in FatalSpots : ~Earlier(s, <<i, j>>)
       /\ error = ErrorAt(<<i, j>>)
       /\ NothingAfterApplied
  /\ status = "returned" =>
       /\ FatalSpots = {}
       /\ \A pos \in Positions : Reached(pos)
       /\ Contents(schema) = ExpectedSchema

(* C7 witness: thrown with an entry left after the fatal place that would  *)
(* have been merged.                                                       *)
C7_Witness ==
  /\ status = "thrown"
  /\ \E pos \in Positions :
       /\ After(pos) /\ KindAt(pos) \in {"Object", "InputObject", "Enum"}
       /\ ~AbsentEntry(pos) /\ ~FatalEntry(pos)

(* The `__`-prefixed key a spec of this kind recognises. *)
RecognisedDunder(kind) ==
  CASE kind = "Object" -> {"__assertStep"}
    [] kind = "InterfaceOrUnion" -> {"__resolveType"}
    [] OTHER -> {}

(* The type exists and the shape of its spec is not valid for its kind: it *)
(* is not a non-null object, or it holds an unrecognised `__` key.         *)
ShapeMismatch(ti) ==
  /\ KindOf(plans[ti].name) # "None"
  /\ \/ plans[ti].spec.t # "object"
     \/ \E k \in Keys(plans[ti].spec.e) :
          StartsWithDunder(k) /\ k \notin RecognisedDunder(KindOf(plans[ti].name))

Orders(s) ==
  { [n \in 1..Len(s) |-> s[f[n]]] :
      f \in { f \in [1..Len(s) -> 1..Len(s)] : \A a, b \in 1..Len(s) : a # b => f[a] # f[b] } }

(* The map with its type entries in every order and, inside each object    *)
(* spec, the entries in every order.                                       *)
Reorderings(ps) ==
  UNION { { c \in [1..Len(tp) -> UNION { { [name |-> tp[n].name, spec |-> [tp[n].spec EXCEPT !.e = es]]
                                            : es \in Orders(tp[n].spec.e) } : n \in 1..Len(tp) }] :
              \A n \in 1..Len(tp) : c[n].name = tp[n].name }
          : tp \in Orders(ps) }

(* C9: when the merge returns, the merge of the same map with its type     *)
(* entries and the entries of each spec in any other order returns too,    *)
(* with the same hooks, slot contents and enum values, and the same        *)
(* warnings up to their order.                                             *)
C9_OrderIndependent ==
  status = "returned" =>
    \A c \in Reorderings(plans) :
      LET r == PlansResult(M0, c, 1)
      IN /\ r.status = "returned"
         /\ Contents(r.schema) = Contents(schema)
         /\ { r.warnings[n] : n \in 1..Len(r.warnings) } = { warnings[n] : n \in 1..Len(warnings) }

(* C9 witness: a returned merge of a map with two type entries that both   *)
(* wrote to the schema, or of one spec with two entries that both wrote.   *)
C9_Witness ==
  /\ status = "returned"
  /\ nextId > 2
  /\ Cardinality(Reorderings(plans)) > 1

UnsupportedKey(pos) ==
  KindAt(pos) = "Object" /\ StartsWithDunder(KeyAt(pos)) /\ KeyAt(pos) # "__assertStep"

(* C10: in an object-type spec the loop never gets past a `__` key other   *)
(* than __assertStep, whether or not the type has a field of that name,    *)
(* and throws the unsupported-field-name error there without a warning;    *)
(* an __assertStep entry gone past has set the type's own slot to          *)
(* {assertStep: value}, left a field of that name as built and warned      *)
(* about nothing.                                                          *)
C10_DunderKeys ==
  \A pos \in Positions :
    /\ UnsupportedKey(pos) =>
         /\ ~Done(pos)
         /\ (status = "thrown" /\ pos = <<i, j>>) =>
              /\ error = [kind |-> "Unsupported field name", at |-> <<KeyAt(pos)>>]
              /\ \A n \in 1..Len(warnings) : warnings[n].at # <<NameAt(pos), KeyAt(pos)>>
              /\ KeyAt(pos) \in FieldsOf(NameAt(pos)) =>
                   schema.field[NameAt(pos)][KeyAt(pos)] = InitSchema.field[NameAt(pos)][KeyAt(pos)]
    /\ (KindAt(pos) = "Object" /\ KeyAt(pos) = "__assertStep" /\ Done(pos)) =>
         /\ schema.typeExt[NameAt(pos)].id > 0
         /\ schema.typeExt[NameAt(pos)].props = <<P("assertStep", ValAt(pos))>>
         /\ \A n \in 1..Len(warnings) : warnings[n].at # <<NameAt(pos), KeyAt(pos)>>
         /\ "__assertStep" \in FieldsOf(NameAt(pos)) =>
              schema.field[NameAt(pos)]["__assertStep"] = InitSchema.field[NameAt(pos)]["__assertStep"]

(* C10 witness: an __assertStep entry was merged and the merge then threw  *)
(* at a `__` key that is the name of a field of the type.                  *)
C10_Witness ==
  /\ status = "thrown" /\ j >= 1
  /\ UnsupportedKey(<<i, j>>) /\ key \in FieldsOf(typeName)
  /\ \E pos \in Positions : Done(pos) /\ KindAt(pos) = "Object" /\ KeyAt(pos) = "__assertStep"

====
